---------------------------- MODULE Spec2Model ----------------------------
(***************************************************************************)
(* A model of src/src/main.rs: the axum server of the htmx infinite-scroll *)
(* gallery.  Three routes (GET /, GET /more, GET /modal/open), the shared  *)
(* counter `static mut IMAGE`, the Direction type and the Modal component's *)
(* parsing of an image reference "<base>?<id>".                             *)
(*                                                                          *)
(* Text is a sequence of one-character strings, so that formatting and     *)
(* parsing are computed character by character as the code computes them.  *)
(***************************************************************************)
EXTENDS Integers, Sequences, FiniteSets, TLC

(***************************************************************************)
(* Bounds of the model.                                                    *)
(***************************************************************************)
\* Requests the server accepts in one run, when it handles one at a time.
MaxRequests == 3
\* Length of the generated url parameters of direct /modal/open requests.
MaxLen == 3
\* Links a browser session follows after its first /modal/open request.
MaxNav == 2
\* Times the scheduler lets one worker's access to IMAGE fall inside another
\* worker's call of random_image_url (a call not so interrupted runs whole).
MaxPreempt == 1

(***************************************************************************)
(* Program constants.                                                      *)
(***************************************************************************)
\* image_list renders one ImageItem for each element of (0..16).
ListSize == 16
\* The range of i32, the type the Modal component parses the id into.
I32Max == 2147483647
I32Min == -I32Max - 1

(***************************************************************************)
(* Text                                                                    *)
(***************************************************************************)
Digits == <<"0", "1", "2", "3", "4", "5", "6", "7", "8", "9">>

IsDigit(c) == \E d \in 1..10 : Digits[d] = c

DigitVal(c) == (CHOOSE d \in 1..10 : Digits[d] = c) - 1

\* The text of a literal, character by character.
PicsumPrefix ==
    <<"h","t","t","p","s",":","/","/","p","i","c","s","u","m",".",
      "p","h","o","t","o","s","/","8","0","0","/","8","0","0","?">>
ModalOpenUrl ==
    <<"/","m","o","d","a","l","/","o","p","e","n","?","u","r","l","=">>
ModalOpenLeft ==
    <<"/","m","o","d","a","l","/","o","p","e","n","?",
      "d","i","r","=","l","e","f","t","&","u","r","l","=">>
ModalOpenRight ==
    <<"/","m","o","d","a","l","/","o","p","e","n","?",
      "d","i","r","=","r","i","g","h","t","&","u","r","l","=">>
ModalContent ==
    <<"m","o","d","a","l","-","c","o","n","t","e","n","t">>
LeftText == <<"l","e","f","t">>
RightText == <<"r","i","g","h","t">>
UrlKey == <<"u","r","l">>
DirKey == <<"d","i","r">>

\* Position of the first occurrence of c in s, 0 when there is none.
IndexOf(s, c) ==
    IF \E i \in 1..Len(s) : s[i] = c
    THEN CHOOSE i \in 1..Len(s) : s[i] = c /\ \A j \in 1..(i-1) : s[j] # c
    ELSE 0

\* Position of the last occurrence of c in s, 0 when there is none.
LastIndexOf(s, c) ==
    IF \E i \in 1..Len(s) : s[i] = c
    THEN CHOOSE i \in 1..Len(s) : s[i] = c /\ \A j \in (i+1)..Len(s) : s[j] # c
    ELSE 0

\* A faulty variant: str::rsplit_once, which splits at the last delimiter.
rsplit_once(s, c) ==
    LET i == LastIndexOf(s, c)
    IN  IF i = 0 THEN [some |-> FALSE, before |-> <<>>, after |-> <<>>]
        ELSE [some |-> TRUE,
              before |-> SubSeq(s, 1, i - 1),
              after |-> SubSeq(s, i + 1, Len(s))]

\* str::split_once: None, or the text before and after the first delimiter.
split_once(s, c) ==
    LET i == IndexOf(s, c)
    IN  IF i = 0 THEN [some |-> FALSE, before |-> <<>>, after |-> <<>>]
        ELSE [some |-> TRUE,
              before |-> SubSeq(s, 1, i - 1),
              after |-> SubSeq(s, i + 1, Len(s))]

\* The digit loop of i32::from_str with its checked multiply and add (or
\* subtract, for a negative number): acc is the value of the digits read.
RECURSIVE ParseDigits(_, _, _, _)
ParseDigits(s, i, acc, neg) ==
    IF i > Len(s) THEN [ok |-> TRUE, val |-> acc]
    ELSE IF ~IsDigit(s[i]) THEN [ok |-> FALSE, val |-> 0]
    ELSE LET d == DigitVal(s[i])
         IN  IF neg
             THEN IF acc < (I32Min + d) \div 10 + (IF (I32Min + d) % 10 = 0 THEN 0 ELSE 1)
                  THEN [ok |-> FALSE, val |-> 0]
                  ELSE ParseDigits(s, i + 1, acc * 10 - d, neg)
             ELSE IF acc > (I32Max - d) \div 10
                  THEN [ok |-> FALSE, val |-> 0]
                  ELSE ParseDigits(s, i + 1, acc * 10 + d, neg)

\* str::parse::<i32>: an optional sign, then one or more decimal digits
\* whose value fits in i32; anything else is an Err.
parse_i32(s) ==
    IF Len(s) = 0 THEN [ok |-> FALSE, val |-> 0]
    ELSE IF s[1] \in {"+", "-"}
         THEN IF Len(s) = 1 THEN [ok |-> FALSE, val |-> 0]
              ELSE ParseDigits(s, 2, 0, s[1] = "-")
         ELSE ParseDigits(s, 1, 0, FALSE)

\* Display of an unsigned integer: its decimal digits, no leading zero.
RECURSIVE fmt_u32(_)
fmt_u32(n) ==
    IF n < 10 THEN <<Digits[n + 1]>>
    ELSE Append(fmt_u32(n \div 10), Digits[(n % 10) + 1])

\* Display of an i32: a minus sign and the digits of the magnitude.  The
\* magnitude of a negative number is taken digit by digit, since -I32Min
\* is not an i32.
RECURSIVE fmt_neg(_)
fmt_neg(n) ==
    LET r == n % 10
        q == IF r = 0 THEN n \div 10 ELSE n \div 10 + 1
        d == IF r = 0 THEN 0 ELSE 10 - r
    IN  IF q = 0 THEN <<Digits[d + 1]>>
        ELSE Append(fmt_neg(q), Digits[d + 1])

fmt_i32(n) == IF n < 0 THEN <<"-">> \o fmt_neg(n) ELSE fmt_u32(n)


(***************************************************************************)
(* Direction                                                               *)
(***************************************************************************)
\* A faulty variant: a match that also takes the capitalised tokens.
from_str_any_case(s) ==
    IF s \in {LeftText, <<"L","e","f","t">>}
    THEN [ok |-> TRUE, val |-> "Left"]
    ELSE IF s \in {RightText, <<"R","i","g","h","t">>}
    THEN [ok |-> TRUE, val |-> "Right"]
    ELSE [ok |-> FALSE, val |-> "None"]

\* impl FromStr for Direction: an exact match of the two tokens.
from_str(s) ==
    IF s = LeftText THEN [ok |-> TRUE, val |-> "Left"]
    ELSE IF s = RightText THEN [ok |-> TRUE, val |-> "Right"]
    ELSE [ok |-> FALSE, val |-> "None"]

\* impl Display for Direction.
fmt_Direction(d) == IF d = "Left" THEN LeftText ELSE RightText

(***************************************************************************)
(* The query string: what the client sends and what Query<HashMap> reads.  *)
(***************************************************************************)
\* The characters a client percent-encodes in a query value, each with the
\* two hexadecimal digits of its code.
PercentCodes ==
    { <<"?", "3", "F">>, <<"&", "2", "6">>, <<"=", "3", "D">>,
      <<"+", "2", "B">>, <<"%", "2", "5">>, <<" ", "2", "0">>,
      <<":", "3", "A">>, <<"/", "2", "F">> }

IsCoded(c) == \E t \in PercentCodes : t[1] = c

CodeOf(c) == CHOOSE t \in PercentCodes : t[1] = c

IsCode(h1, h2) == \E t \in PercentCodes : t[2] = h1 /\ t[3] = h2

CharOf(h1, h2) == (CHOOSE t \in PercentCodes : t[2] = h1 /\ t[3] = h2)[1]

\* A client's encoding of a query value (encodeURIComponent).
RECURSIVE EncodeComponent(_)
EncodeComponent(s) ==
    IF s = <<>> THEN <<>>
    ELSE (IF IsCoded(s[1])
          THEN <<"%", CodeOf(s[1])[2], CodeOf(s[1])[3]>>
          ELSE <<s[1]>>) \o EncodeComponent(Tail(s))

\* form_urlencoded's decoding of a name or a value: '+' is a space, "%XY"
\* is the character with code XY, a '%' not followed by a code stays.
RECURSIVE decode(_)
decode(s) ==
    IF s = <<>> THEN <<>>
    ELSE IF s[1] = "+" THEN <<" ">> \o decode(Tail(s))
    ELSE IF s[1] = "%" /\ Len(s) >= 3 /\ IsCode(s[2], s[3])
         THEN <<CharOf(s[2], s[3])>> \o decode(SubSeq(s, 4, Len(s)))
    ELSE <<s[1]>> \o decode(Tail(s))

\* The pieces of s between the occurrences of c.
RECURSIVE SplitAll(_, _)
SplitAll(s, c) ==
    LET p == split_once(s, c)
    IN  IF p.some THEN <<p.before>> \o SplitAll(p.after, c) ELSE <<s>>

\* One "name=value" piece of a query, decoded; a piece without '=' has an
\* empty value.
ParsePair(seg) ==
    LET p == split_once(seg, "=")
    IN  IF p.some THEN <<decode(p.before), decode(p.after)>>
        ELSE <<decode(seg), <<>>>>

\* Query<HashMap<String, String>>: the pairs of the query in order, empty
\* pieces skipped.
ParseQuery(raw) ==
    LET segs == SelectSeq(SplitAll(raw, "&"), LAMBDA g : g # <<>>)
    IN  [i \in 1..Len(segs) |-> ParsePair(segs[i])]

\* HashMap::get after the pairs were inserted in order: the last pair of
\* that name wins.
Get(q, key) ==
    LET hits == { i \in 1..Len(q) : q[i][1] = key }
    IN  IF hits = {} THEN [some |-> FALSE, val |-> <<>>]
        ELSE [some |-> TRUE,
              val |-> q[CHOOSE i \in hits : \A j \in hits : j <= i][2]]

\* The request a browser issues for an hx-get attribute: the path up to the
\* first '?', and the rest as the query, a space sent as %20.
RECURSIVE BrowserQuery(_)
BrowserQuery(s) ==
    IF s = <<>> THEN <<>>
    ELSE (IF s[1] = " " THEN <<"%", "2", "0">> ELSE <<s[1]>>)
         \o BrowserQuery(Tail(s))

BrowserGet(link) ==
    LET p == split_once(link, "?")
    IN  IF p.some THEN [path |-> p.before, query |-> BrowserQuery(p.after)]
        ELSE [path |-> link, query |-> <<>>]

(***************************************************************************)
(* Components                                                              *)
(***************************************************************************)
\* A faulty variant: the url of the value before the increment.
ImageUrlBefore(n) == PicsumPrefix \o fmt_u32(n - 1)

\* The format! of random_image_url for the value read from IMAGE.
ImageUrl(n) == PicsumPrefix \o fmt_u32(n)

\* image_item: the <li> and its <img>, for the url random_image_url gave.
image_item(url) == [src |-> url, hx_get |-> ModalOpenUrl \o url]

NoItem == [src |-> <<>>, hx_get |-> <<>>]

\* i32 subtraction and addition of 1: a panic in a build with overflow
\* checks, two's complement wrap-around in one without.
SubOne(id, checks) ==
    IF id = I32Min
    THEN IF checks THEN [panic |-> TRUE, val |-> 0]
         ELSE [panic |-> FALSE, val |-> I32Max]
    ELSE [panic |-> FALSE, val |-> id - 1]

AddOne(id, checks) ==
    IF id = I32Max
    THEN IF checks THEN [panic |-> TRUE, val |-> 0]
         ELSE [panic |-> FALSE, val |-> I32Min]
    ELSE [panic |-> FALSE, val |-> id + 1]

\* The id attribute of the modal's content element.
modal_id(dir) ==
    IF dir = "None" THEN ModalContent
    ELSE ModalContent \o <<"-">> \o fmt_Direction(dir)

\* A faulty variant: the '?' between the base and the id left out.
PrevGetJoined(base, n) == ModalOpenLeft \o base \o fmt_i32(n)

\* The targets of the modal's previous and next buttons.
PrevGet(base, n) == ModalOpenLeft \o base \o <<"?">> \o fmt_i32(n)

NextGet(base, n) == ModalOpenRight \o base \o <<"?">> \o fmt_i32(n)

\* A panic of the component, and the locals it had bound by then.
Panic(where, base, id) ==
    [panic |-> TRUE, at |-> where, base |-> base, id |-> id,
     modal_id |-> <<>>, src |-> <<>>, prev_get |-> <<>>, next_get |-> <<>>]

\* The Modal component: both unwraps, then the view, whose attributes are
\* computed in the order they are written.
modal(url, dir, checks) ==
    LET p == split_once(url, "?")
        id == parse_i32(p.after)
        prev == SubOne(id.val, checks)
        next == AddOne(id.val, checks)
    IN  IF ~p.some THEN Panic("split_once", <<>>, 0)
        ELSE IF ~id.ok THEN Panic("parse", p.before, 0)
        ELSE IF prev.panic THEN Panic("sub", p.before, id.val)
        ELSE IF next.panic THEN Panic("add", p.before, id.val)
        ELSE [panic |-> FALSE, at |-> "", base |-> p.before, id |-> id.val,
              modal_id |-> modal_id(dir),
              src |-> url,
              prev_get |-> PrevGet(p.before, prev.val),
              next_get |-> NextGet(p.before, next.val)]

\* The handler of GET /modal/open: the url parameter or "", the dir
\* parameter parsed, an unparsable one dropped.
ModalUrl(q) == IF Get(q, UrlKey).some THEN Get(q, UrlKey).val ELSE <<>>

ModalDir(q) ==
    IF Get(q, DirKey).some THEN from_str(Get(q, DirKey).val).val ELSE "None"


(***************************************************************************)
(* Requests                                                                *)
(***************************************************************************)
\* Two worker threads of the tokio runtime, which handle requests in parallel.
Workers == {1, 2}

ModalOpenPath == <<"/","m","o","d","a","l","/","o","p","e","n">>

Absent == [some |-> FALSE, val |-> <<>>]

Given(v) == [some |-> TRUE, val |-> v]

\* The query of a client's own GET /modal/open: the parameters it means
\* to send, each percent-encoded.
UrlKeyEq == <<"u","r","l","=">>
DirKeyEq == <<"d","i","r","=">>

BuildQuery(url, dir) ==
    LET u == IF url.some THEN UrlKeyEq \o EncodeComponent(url.val) ELSE <<>>
        d == IF dir.some THEN DirKeyEq \o EncodeComponent(dir.val) ELSE <<>>
    IN  IF url.some /\ dir.some THEN u \o <<"&">> \o d ELSE u \o d

\* Characters of the generated url parameters.
UrlChars == {"a", "?", "&", "+", "-", "0", "1", "9"}

Texts(n) == UNION { [1..k -> UrlChars] : k \in 0..n }

\* The references the documentation names, and references at the ends of
\* the range of i32.
SampleUrls ==
    { <<"i","m","a","g","e","s","?","5">>,
      <<"i","m","a","g","e","s","?","4","2">>,
      <<"i","m","a","g","e","s","?","1","0">>,
      <<"a","/","b","?","0">>,
      <<"i","m","a","g","e","s","?","a","b","c">>,
      <<"n","o","-","s","e","p","a","r","a","t","o","r">>,
      <<"a","?","2","1","4","7","4","8","3","6","4","6">>,
      <<"a","?","2","1","4","7","4","8","3","6","4","7">>,
      <<"a","?","2","1","4","7","4","8","3","6","4","8">>,
      <<"a","?","-","2","1","4","7","4","8","3","6","4","7">>,
      <<"a","?","-","2","1","4","7","4","8","3","6","4","8">>,
      <<"a","?","-","2","1","4","7","4","8","3","6","4","9">>,
      <<"a","?","0","0","0","0","0","0","0","0","0","0","7">> }

UrlInputs == { Given(u) : u \in Texts(MaxLen) \cup SampleUrls } \cup {Absent}

DirInputs ==
    { Given(LeftText), Given(RightText), Given(<<"u","p">>), Given(<<>>),
      Given(<<"L","e","f","t">>), Given(<<"l","e","f","t"," ">>), Absent }

\* The requests of the concurrent specification: the two list routes, the
\* documented modal request, and a modal request without parameters.
ListRoutes == {"/", "/more"}

ServerRequests ==
    { [route |-> r, query |-> <<>>] : r \in ListRoutes }
    \cup { [route |-> "/modal/open",
            query |-> BuildQuery(Given(<<"i","m","a","g","e","s","?","1","0">>),
                                 Given(LeftText))],
           [route |-> "/modal/open", query |-> <<>>] }

NoRequest == [route |-> "", query |-> <<>>]

(***************************************************************************)
(* State                                                                   *)
(***************************************************************************)
VARIABLES
    IMAGE,            \* static mut IMAGE: u32
    pc,               \* per worker: where its handler is
    req,              \* per worker: the request it handles
    tmp,              \* per worker: the value of IMAGE it loaded to add 1
    resp,             \* per worker: the response it is rendering
    accepted,         \* requests accepted so far
    total,            \* image items rendered since the process started
    dup,              \* an item embedded the value of the item before it
    raced,            \* a call of random_image_url began during another
    running,          \* the worker inside a call that accessed IMAGE last
    preempts,         \* accesses that fell inside another worker's call
    trail,            \* the requests of the browser session, in order
    sent,             \* the parameters its first request was meant to carry
    item              \* the image item rendered latest

vars == <<IMAGE, pc, req, tmp, resp, accepted, total,
          dup, raced, running, preempts, trail, sent, item>>

NoModal == Panic("", <<>>, 0)

NoResponse ==
    [status |-> "none", shell |-> FALSE, items |-> 0, sentinel |-> 0,
     dir |-> "None", modal |-> NoModal]

NotSent == [url |-> Absent, dir |-> Absent]

\* The process after main has bound the listener: no request yet.
Started ==
    /\ pc = [w \in Workers |-> "idle"]
    /\ req = [w \in Workers |-> NoRequest]
    /\ tmp = [w \in Workers |-> 0]
    /\ resp = [w \in Workers |-> NoResponse]
    /\ accepted = 0
    /\ total = 0
    /\ dup = FALSE
    /\ raced = FALSE
    /\ running = 0
    /\ preempts = 0
    /\ trail = <<>>
    /\ sent = NotSent

Init ==
    /\ IMAGE = 0
    /\ item = NoItem
    /\ Started

(***************************************************************************)
(* Handlers                                                                *)
(***************************************************************************)
Free(w) == pc[w] \in {"idle", "done"}

\* A worker takes a request off the listener and enters its handler.
Accept(w, r) ==
    /\ pc' = [pc EXCEPT ![w] = IF r.route \in ListRoutes THEN "load" ELSE "modal"]
    /\ req' = [req EXCEPT ![w] = r]
    /\ resp' = [resp EXCEPT ![w] = [NoResponse EXCEPT !.shell = (r.route = "/")]]
    /\ accepted' = accepted + 1

\* Each worker takes one request, and the two may be handled at once.
Recv(w, r) ==
    /\ pc[w] = "idle"
    /\ Accept(w, r)
    /\ UNCHANGED <<IMAGE, tmp, total, dup, raced,
                   running, preempts, trail, sent, item>>

\* A server that handles one request at a time: a worker takes a request
\* when no handler is running.
RecvAlone(w, r) ==
    /\ \A u \in Workers : Free(u)
    /\ accepted < MaxRequests
    /\ Accept(w, r)
    /\ UNCHANGED <<IMAGE, tmp, total, dup, raced,
                   running, preempts, trail, sent, item>>

\* Inside random_image_url: IMAGE loaded, the call not yet returned.
InCall(u) == pc[u] \in {"store", "read"}

\* Whether an access to IMAGE by w falls inside the call of the worker that
\* made the latest access.
Preempts(w) == running # 0 /\ running # w /\ InCall(running)

\* The scheduler lets w access IMAGE; `returns` says that this access is the
\* last of w's call.
Access(w, returns) ==
    /\ Preempts(w) => preempts < MaxPreempt
    /\ preempts' = IF Preempts(w) THEN preempts + 1 ELSE preempts
    /\ running' = IF returns THEN 0 ELSE w

\* Faulty variants: the counter stepped by two, and not stepped at all.
IncrementedByTwo(t) == t + 2

IncrementedByNone(t) == t

\* The value `IMAGE += 1` stores for the value it loaded.
Incremented(t) == t + 1

\* random_image_url, `IMAGE += 1`: the load of the unsynchronized
\* read-modify-write.
Load(w) ==
    /\ pc[w] = "load"
    /\ tmp' = [tmp EXCEPT ![w] = IMAGE]
    /\ raced' = (raced \/ \E u \in Workers \ {w} : InCall(u))
    /\ pc' = [pc EXCEPT ![w] = "store"]
    /\ Access(w, FALSE)
    /\ UNCHANGED <<IMAGE, req, resp, accepted, total,
                   dup, trail, sent, item>>

\* random_image_url, `IMAGE += 1`: the store.
Store(w) ==
    /\ pc[w] = "store"
    /\ IMAGE' = Incremented(tmp[w])
    /\ pc' = [pc EXCEPT ![w] = "read"]
    /\ Access(w, FALSE)
    /\ UNCHANGED <<req, tmp, resp, accepted, total,
                   dup, raced, trail, sent, item>>

\* The values the read of IMAGE in the format! can give: the static as it
\* is now, or, the access being unsynchronized, the value this call stored.
ReadValues(w) == {IMAGE, Incremented(tmp[w])}

\* A faulty variant: an inclusive range, (0..=16).
ListDoneInclusive(n) == n = ListSize + 1

\* Whether image_list's For has rendered all of (0..16).
ListDone(n) == n = ListSize

\* random_image_url's format! and the rest of image_item: one more item.
Read(w) ==
    /\ pc[w] = "read"
    /\ \E v \in ReadValues(w) :
        /\ item' = image_item(ImageUrl(v))
        /\ dup' = (dup \/ (total > 0 /\ item = image_item(ImageUrl(v))))
    /\ resp' = [resp EXCEPT ![w].items = @ + 1]
    /\ total' = total + 1
    /\ pc' = [pc EXCEPT ![w] = IF ListDone(resp[w].items + 1) THEN "finish" ELSE "load"]
    /\ tmp' = [tmp EXCEPT ![w] = 0]
    /\ Access(w, TRUE)
    /\ UNCHANGED <<IMAGE, req, accepted, raced, trail, sent>>

\* image_list's sentinel <li> after the items, and the handler's return.
Finish(w) ==
    /\ pc[w] = "finish"
    /\ resp' = [resp EXCEPT ![w].sentinel = @ + 1, ![w].status = "200"]
    /\ pc' = [pc EXCEPT ![w] = "done"]
    /\ UNCHANGED <<IMAGE, req, tmp, accepted, total,
                   dup, raced, running, preempts, trail,
                   sent, item>>

\* The builds of the program: with overflow checks (cargo's dev profile) or
\* without (its release profile).
OverflowChecks == BOOLEAN

\* The handler of GET /modal/open: a rendered Modal, or the panic of one of
\* the component's unwraps or of its arithmetic, which ends the request
\* without a response.
Modal(w) ==
    /\ pc[w] = "modal"
    /\ \E checks \in OverflowChecks :
         LET q == ParseQuery(req[w].query)
             m == modal(ModalUrl(q), ModalDir(q), checks)
         IN  resp' = [resp EXCEPT ![w].status = IF m.panic THEN "panic" ELSE "200",
                                  ![w].dir = ModalDir(q),
                                  ![w].modal = m]
    /\ pc' = [pc EXCEPT ![w] = "done"]
    /\ UNCHANGED <<IMAGE, req, tmp, accepted, total,
                   dup, raced, running, preempts, trail,
                   sent, item>>

Next ==
    \E w \in Workers :
        \/ \E r \in ServerRequests : Recv(w, r)
        \/ Load(w)
        \/ Store(w)
        \/ Read(w)
        \/ Finish(w)
        \/ Modal(w)

Spec == Init /\ [][Next]_vars

NextAlone ==
    \E w \in Workers :
        \/ \E r \in ServerRequests : RecvAlone(w, r)
        \/ Load(w)
        \/ Store(w)
        \/ Read(w)
        \/ Finish(w)
        \/ Modal(w)

SpecSeq == Init /\ [][NextAlone]_vars

(***************************************************************************)
(* A browser session on /modal/open                                        *)
(***************************************************************************)
\* The counter values for which the session's page shows the item rendered
\* latest: early ones, and the last ones that fit in an i32.
ItemCounters == {1, 9, 10, 99, I32Max - 1, I32Max}

\* The server after it rendered its n-th image item, one request at a time.
InitModal ==
    /\ IMAGE \in ItemCounters \cup {0}
    /\ item = IF IMAGE = 0 THEN NoItem ELSE image_item(ImageUrl(IMAGE))
    /\ Started

\* The worker that serves the session's connection.
Server == CHOOSE w \in Workers : TRUE

\* Router::route: the handler of a path.
RouteOf(path) ==
    IF path = ModalOpenPath THEN "/modal/open"
    ELSE IF path = <<"/">> THEN "/"
    ELSE IF path = <<"/","m","o","r","e">> THEN "/more"
    ELSE "none"

\* The browser sends a GET and the server's worker takes it.
Send(via, route, query) ==
    /\ Accept(Server, [route |-> route, query |-> query])
    /\ trail' = Append(trail, [via |-> via, query |-> query])
    /\ UNCHANGED <<IMAGE, tmp, total, dup, raced, running, preempts, item>>

\* A click on the image item: htmx issues the GET of its hx-get.
ClickItem ==
    /\ trail = <<>>
    /\ pc[Server] = "idle"
    /\ item # NoItem
    /\ LET g == BrowserGet(item.hx_get)
       IN  Send("item", RouteOf(g.path), g.query)
    /\ sent' = [url |-> Given(item.src), dir |-> Absent]

\* A client's own GET /modal/open with the parameters it chooses.  The
\* handler reads nothing of the server's state, so these requests are sent
\* to the server that has not rendered an item yet.
DirectRequest ==
    /\ trail = <<>>
    /\ pc[Server] = "idle"
    /\ item = NoItem
    /\ \E u \in UrlInputs, d \in DirInputs :
         /\ Send("direct", "/modal/open", BuildQuery(u, d))
         /\ sent' = [url |-> u, dir |-> d]

\* A click on the previous or the next button of the modal shown.
Follow(via) ==
    /\ pc[Server] = "done"
    /\ resp[Server].status = "200"
    /\ Len(trail) <= MaxNav
    /\ LET m == resp[Server].modal
           g == BrowserGet(IF via = "prev" THEN m.prev_get ELSE m.next_get)
       IN  Send(via, RouteOf(g.path), g.query)
    /\ UNCHANGED sent

NextModal ==
    \/ ClickItem
    \/ DirectRequest
    \/ Modal(Server)
    \/ \E via \in {"prev", "next"} : Follow(via)

SpecModal == InitModal /\ [][NextModal]_vars

(***************************************************************************)
(* What the documentation calls a well-formed reference, stated on the     *)
(* text itself and not through the program's parser: "<base>?<id>", the    *)
(* base free of '?', the id a decimal integer in the range of i32.         *)
(***************************************************************************)
HasSep(u) == \E i \in 1..Len(u) : u[i] = "?"

\* The base: the longest prefix free of '?'.
RefBase(u) ==
    LET n == CHOOSE k \in 0..Len(u) :
                 /\ \A j \in 1..k : u[j] # "?"
                 /\ (k < Len(u) => u[k + 1] = "?")
    IN  SubSeq(u, 1, n)

\* The id: what follows the base and the '?' after it.
IdText(u) == SubSeq(u, Len(RefBase(u)) + 2, Len(u))

DecimalDigits == {"0", "1", "2", "3", "4", "5", "6", "7", "8", "9"}

Signed(t) == Len(t) > 0 /\ t[1] \in {"+", "-"}

Unsigned(t) == IF Signed(t) THEN Tail(t) ELSE t

\* An optional sign and one or more decimal digits.
IsIntText(t) ==
    /\ Len(Unsigned(t)) > 0
    /\ \A i \in 1..Len(Unsigned(t)) : Unsigned(t)[i] \in DecimalDigits

\* The digits without their leading zeros (the last digit kept).
RECURSIVE Significant(_)
Significant(d) ==
    IF Len(d) > 1 /\ d[1] = "0" THEN Significant(Tail(d)) ELSE d

\* d <= e for two digit texts of the same length.
RECURSIVE DigitsLeq(_, _)
DigitsLeq(d, e) ==
    \/ d = <<>>
    \/ DigitVal(d[1]) < DigitVal(e[1])
    \/ d[1] = e[1] /\ DigitsLeq(Tail(d), Tail(e))

MaxText == <<"2","1","4","7","4","8","3","6","4","7">>
MinText == <<"2","1","4","7","4","8","3","6","4","8">>

\* The integer an integer text denotes lies in the range of i32.
FitsI32(t) ==
    LET d == Significant(Unsigned(t))
    IN  \/ Len(d) < Len(MaxText)
        \/ /\ Len(d) = Len(MaxText)
           /\ DigitsLeq(d, IF Signed(t) /\ t[1] = "-" THEN MinText ELSE MaxText)

RECURSIVE Pow10(_)
Pow10(k) == IF k = 0 THEN 1 ELSE 10 * Pow10(k - 1)

\* The sum of sign * digit * 10^position over the digits d[i..].
RECURSIVE PlaceSum(_, _, _)
PlaceSum(d, i, sign) ==
    IF i > Len(d) THEN 0
    ELSE sign * DigitVal(d[i]) * Pow10(Len(d) - i) + PlaceSum(d, i + 1, sign)

\* The integer an integer text that fits denotes.
IntValue(t) ==
    PlaceSum(Significant(Unsigned(t)), 1,
             IF Signed(t) /\ t[1] = "-" THEN -1 ELSE 1)

WellFormed(u) == HasSep(u) /\ IsIntText(IdText(u)) /\ FitsI32(IdText(u))

RefId(u) == IntValue(IdText(u))

\* A well-formed reference whose id is strictly inside the range of i32.
Inner(u) == WellFormed(u) /\ I32Min < RefId(u) /\ RefId(u) < I32Max

PicsumBase == SubSeq(PicsumPrefix, 1, Len(PicsumPrefix) - 1)

(***************************************************************************)
(* The session's view of a request and of the links of a response.         *)
(***************************************************************************)
\* The server's worker has handled a GET /modal/open.
Handled == pc[Server] = "done" /\ req[Server].route = "/modal/open"

\* The first request of the session was handled, and was the client's own.
HandledDirect == Handled /\ Len(trail) = 1 /\ trail[1].via = "direct"

\* The url the client meant: an absent parameter is the empty text.
SentUrl == IF sent.url.some THEN sent.url.val ELSE <<>>

\* The url parameter the handler received in a query.
UrlOf(query) == ModalUrl(ParseQuery(query))

\* The browser's GET for `link` is a /modal/open whose dir parameter parses
\* to dir and whose url parameter is the reference <base>?<n>.
Targets(link, dir, base, n) ==
    LET g == BrowserGet(link)
        u == UrlOf(g.query)
    IN  /\ RouteOf(g.path) = "/modal/open"
        /\ ModalDir(ParseQuery(g.query)) = dir
        /\ WellFormed(u)
        /\ RefBase(u) = base
        /\ RefId(u) = n

(***************************************************************************)
(* Properties of the list routes and of the counter                        *)
(***************************************************************************)
IsList(w) == req[w].route \in ListRoutes

\* The value the item rendered latest embeds in its src.
Embedded == RefId(item.src)

\* C1: every List fragment a handler returns (GET / or GET /more) holds
\* exactly 16 image items followed by exactly 1 sentinel element, whatever
\* requests were handled before it and whatever the counter is; the
\* sentinel is rendered only after the 16th item.
C1_ListHasSixteenItemsAndOneSentinel ==
    \A w \in Workers :
        IsList(w) =>
            /\ resp[w].sentinel = 1 => resp[w].items = 16
            /\ resp[w].sentinel \in {0, 1}
            /\ pc[w] = "done" =>
                  /\ resp[w].status = "200"
                  /\ resp[w].items = 16
                  /\ resp[w].sentinel = 1
                  /\ resp[w].shell = (req[w].route = "/")

\* A third request's list is complete after two earlier lists were rendered.
C1_Witness ==
    /\ accepted = 3
    /\ total = 48
    /\ \E w \in Workers :
          /\ pc[w] = "done" /\ req[w].route = "/more"
          /\ resp[w].items = 16 /\ resp[w].sentinel = 1

\* C2: with requests handled one at a time, the counter starts at 0, every
\* call of random_image_url adds exactly 1 to it and embeds the new value,
\* so the i-th item rendered since the process started embeds i, and the
\* embedded values are distinct and strictly increasing.
C2_SequentialItemsEmbedTheirOrdinal ==
    /\ (total = 0) = (item = NoItem)
    /\ total > 0 =>
          /\ item.hx_get = ModalOpenUrl \o item.src
          /\ WellFormed(item.src)
          /\ RefBase(item.src) = PicsumBase
          /\ Embedded = total
    /\ IMAGE = total + (IF \E w \in Workers : pc[w] = "read" THEN 1 ELSE 0)
    /\ ~dup

\* The first item of the third list is the 33rd item and embeds 33.
C2_Witness ==
    /\ total = 33
    /\ Embedded = 33
    /\ accepted = 3

\* C3: two items are rendered with the same embedded value only when one
\* call of random_image_url began inside another worker's call, and until
\* that happens every item embeds its ordinal; with two requests rendering
\* at once such a duplicate is reachable (C3_Witness).
C3_DuplicateOnlyByInterleavedCalls ==
    /\ dup => raced
    /\ ~raced /\ total > 0 => Embedded = total

\* Two items rendered by two different workers embed the same value.
C3_Witness ==
    /\ dup
    /\ total = 2
    /\ \A w \in Workers : IsList(w) /\ resp[w].items = 1
    /\ Embedded = 1

\* No handler is running.
Quiet == \A w \in Workers : Free(w)

\* C9: when every request has completed, the counter is at most the number
\* N of items rendered, it is less than N only if calls interleaved (a lost
\* update), and no request failed for it: every list request completed with
\* status 200 and a full list.  The lost update is reachable (C9_Witness).
C9_LostUpdatesAreNotFatal ==
    /\ IMAGE <= total + Cardinality({w \in Workers : pc[w] = "read"})
    /\ Quiet =>
          /\ IMAGE <= total
          /\ IMAGE < total => raced
          /\ \A w \in Workers :
                IsList(w) => resp[w].status = "200" /\ resp[w].items + resp[w].sentinel = 17

\* Both lists are complete, 32 items were rendered, and the counter is less.
C9_Witness ==
    /\ Quiet
    /\ total = 32
    /\ IMAGE < 32
    /\ \A w \in Workers : IsList(w) /\ resp[w].status = "200" /\ resp[w].items = 16

(***************************************************************************)
(* Properties of GET /modal/open                                           *)
(***************************************************************************)
\* The url parameter of the request the server's worker handled.
Url == UrlOf(req[Server].query)

Shown == resp[Server].modal

\* The content id the documentation gives for a dir parameter.
ContentId(d) ==
    IF d = Given(LeftText) THEN ModalContent \o <<"-">> \o LeftText
    ELSE IF d = Given(RightText) THEN ModalContent \o <<"-">> \o RightText
    ELSE ModalContent

\* The last two requests of the session were made by following first the
\* link a and then the link b.
Followed(a, b) ==
    /\ Len(trail) >= 3
    /\ trail[Len(trail) - 1].via = a
    /\ trail[Len(trail)].via = b

\* The reference of the request the session started the last two links from.
Origin == UrlOf(trail[Len(trail) - 2].query)

\* C4: for every well-formed reference <base>?<id> and every dir, the
\* rendered Modal's previous button targets /modal/open with dir=left and
\* url=<base>?<id-1>, its next button targets it with dir=right and
\* url=<base>?<id+1>, and following next then previous (or previous then
\* next) returns to the original reference.
C4_NavigationTargets ==
    /\ Handled /\ WellFormed(Url) =>
          /\ resp[Server].status = "200"
          /\ RefId(Url) > I32Min
          /\ Targets(Shown.prev_get, "Left", RefBase(Url), RefId(Url) - 1)
          /\ RefId(Url) < I32Max
          /\ Targets(Shown.next_get, "Right", RefBase(Url), RefId(Url) + 1)
    /\ Handled /\ (Followed("next", "prev") \/ Followed("prev", "next"))
         /\ WellFormed(Origin) =>
          /\ WellFormed(Url)
          /\ RefBase(Url) = RefBase(Origin)
          /\ RefId(Url) = RefId(Origin)

\* C5: for every GET /modal/open with a well-formed url parameter the
\* response is 200, the content element's id is modal-content-left for
\* dir=left, modal-content-right for dir=right and modal-content for an
\* absent or any other dir, and the image src is the url parameter verbatim.
C5_ModalResponse ==
    HandledDirect /\ WellFormed(SentUrl) =>
        /\ resp[Server].status = "200"
        /\ Shown.modal_id = ContentId(sent.dir)
        /\ Shown.src = SentUrl

\* C6: the Modal splits its url on the first '?': for a url whose first '?'
\* is followed by an integer (of i32) it binds the text before that '?' and
\* that integer; it fails at the split if the url has no '?', and at the
\* parse if what follows the first '?' is not such an integer, as when it
\* holds a further '?'.
C6_ReferenceSplitsOnFirstSeparator ==
    HandledDirect =>
        /\ ~HasSep(SentUrl) => Shown.panic /\ Shown.at = "split_once"
        /\ HasSep(SentUrl) /\ ~IsIntText(IdText(SentUrl)) =>
              Shown.panic /\ Shown.at = "parse"
        /\ HasSep(IdText(SentUrl)) => Shown.panic /\ Shown.at = "parse"
        /\ WellFormed(SentUrl) =>
              /\ Shown.at \notin {"split_once", "parse"}
              /\ Shown.base = RefBase(SentUrl)
              /\ Shown.id = RefId(SentUrl)

\* "images?42" was split into "images" and 42.
C6_Witness ==
    /\ HandledDirect
    /\ SentUrl = <<"i","m","a","g","e","s","?","4","2">>
    /\ Shown.base = <<"i","m","a","g","e","s">>
    /\ Shown.id = 42
    /\ ~Shown.panic

\* C7: the dir parameter is matched exactly and case-sensitively: "left"
\* gives Left, "right" gives Right, every other token and an absent
\* parameter give None and never an error; Display maps Left to "left" and
\* Right to "right", and parsing what it writes gives the direction back.
C7_DirectionParsing ==
    HandledDirect =>
        /\ resp[Server].dir =
              (IF sent.dir = Given(LeftText) THEN "Left"
               ELSE IF sent.dir = Given(RightText) THEN "Right"
               ELSE "None")
        /\ Inner(SentUrl) => resp[Server].status = "200"
        /\ resp[Server].dir # "None" =>
              /\ fmt_Direction(resp[Server].dir) = sent.dir.val
              /\ from_str(fmt_Direction(resp[Server].dir))
                    = [ok |-> TRUE, val |-> resp[Server].dir]

\* The token "Left" was taken for no direction, and the modal was rendered.
C7_Witness ==
    /\ HandledDirect
    /\ sent.dir = Given(<<"L","e","f","t">>)
    /\ resp[Server].dir = "None"
    /\ resp[Server].status = "200"
    /\ Shown.modal_id = ModalContent

\* C8: a GET /modal/open that carries no url parameter is answered with
\* status 400, not with an unhandled failure of the request.
C8_MissingUrlIsBadRequest ==
    HandledDirect /\ ~sent.url.some => resp[Server].status = "400"

\* The url of a link of the modal: the text after the link's literal prefix.
LinkUrl(link, prefix) == SubSeq(link, Len(prefix) + 1, Len(link))

\* C10: the url of an image item's /modal/open link is a well-formed
\* reference with the picsum base and the counter as id; a Modal rendered for
\* a well-formed reference with id strictly inside the range of i32 has
\* previous and next links that carry well-formed references with the same
\* base; so a session that starts at a rendered item and follows previous
\* and next links inside that range never reaches a failure of the
\* reference parse.
C10_LinksStayWellFormed ==
    /\ Handled /\ Inner(Url) =>
          /\ resp[Server].status = "200"
          /\ Shown.prev_get = ModalOpenLeft \o LinkUrl(Shown.prev_get, ModalOpenLeft)
          /\ Shown.next_get = ModalOpenRight \o LinkUrl(Shown.next_get, ModalOpenRight)
          /\ WellFormed(LinkUrl(Shown.prev_get, ModalOpenLeft))
          /\ WellFormed(LinkUrl(Shown.next_get, ModalOpenRight))
          /\ RefBase(LinkUrl(Shown.prev_get, ModalOpenLeft)) = RefBase(Url)
          /\ RefBase(LinkUrl(Shown.next_get, ModalOpenRight)) = RefBase(Url)
    /\ Handled /\ trail[1].via = "item" =>
          /\ Len(trail) = 1 => Url = item.src /\ RefId(Url) = IMAGE
          /\ WellFormed(Url)
          /\ RefBase(Url) = PicsumBase
          /\ Shown.at \notin {"split_once", "parse"}
          /\ Inner(Url) =>
                /\ Targets(Shown.prev_get, "Left", PicsumBase, RefId(Url) - 1)
                /\ Targets(Shown.next_get, "Right", PicsumBase, RefId(Url) + 1)

\* From the first item, previous was followed twice: the modal shows id -1.
C10_Witness ==
    /\ Handled
    /\ Len(trail) = 3
    /\ trail[1].via = "item"
    /\ trail[3].via = "prev"
    /\ resp[Server].status = "200"
    /\ Shown.id = -1
    /\ Shown.base = PicsumBase

=============================================================================
